---- MODULE Spec2Model ----
(***************************************************************************)
(* Model of the two contracts of algorand-first-contracts and of the       *)
(* confirmation poll that their drivers share.                             *)
(*                                                                         *)
(*   - the counter application  (counter_contract.py, approval_program)    *)
(*   - the donation escrow      (donation_smart_sig.py, donation_escrow)   *)
(*   - wait_for_confirmation    (the same loop in counter_contract.py,     *)
(*                               donation_smart_sig.py, tests/helpers.py)  *)
(*                                                                         *)
(* The ledger is modelled only as far as the programs' verdicts need it:   *)
(* a transaction group is applied member by member and is rolled back as   *)
(* a whole when one member is rejected.                                    *)
(***************************************************************************)
EXTENDS Integers, Sequences, FiniteSets, TLC

VARIABLES
    created,        \* the counter application exists on the ledger
    globalState,    \* its global key/value state (a function on its keys)
    programs,       \* the approval/clear programs the application runs
    optedIn,        \* accounts opted in to the application
    hist,           \* the approved solo Add/Deduct calls since creation
    phase,          \* "idle", "pending" (group in the pool), "done" (evaluated)
    group,          \* the submitted transaction group
    accepted,       \* whether the ledger applied the evaluated group
    pre,            \* the ledger as it was before the group was evaluated
    sendLog,        \* what the running send_transactions was given and did
    escrowBal,      \* balance of the donation escrow account
    escrowAuth,     \* who authorises spending from it (the program, or a key)
    received,       \* what each address has received from the escrow
    funded,         \* total paid into the escrow
    escrowPhase,    \* "idle", "pending", "done"
    escrowTxn,      \* the transaction submitted under the escrow's signature
    escrowGroupSize,\* the size of the group it was submitted in
    escrowVerdict,  \* the escrow program's verdict on it
    escrowApplied,  \* whether the ledger applied it
    lastRound,      \* the node's last round
    wfcPc,          \* wait_for_confirmation: "idle", "status", "loop", "poll",
                    \*   "wait", "done"
    timeout,        \* its round budget
    start_round,
    current_round,
    pollLog,        \* what pending_transaction_info answered, poll by poll
    waits,          \* calls of status_after_block that returned
    wfcResult,      \* how the call ended
    flow,           \* the running workflow: its name, position, outcome and
                    \*   whether one of its steps has failed
    state,          \* the global-state list handed to the two decoders
    formatted,      \* what format_state made of it
    app_state       \* what get_app_global_state made of it

counterVars ==
    <<created, globalState, programs, optedIn, hist, phase, group, accepted, pre,
      sendLog>>

escrowVars ==
    <<escrowBal, escrowAuth, received, funded, escrowPhase, escrowTxn,
      escrowGroupSize, escrowVerdict, escrowApplied>>

waitVars ==
    <<lastRound, wfcPc, timeout, start_round, current_round, pollLog, waits,
      wfcResult>>

flowVars == <<flow>>

formatVars == <<state, formatted, app_state>>

vars == <<counterVars, escrowVars, waitVars, flowVars, formatVars>>

-----------------------------------------------------------------------------
(* Bounds *)

\* Largest value of the AVM's unsigned integer, scaled down from 2^64 - 1.
UintMax == 3
\* Approved Add/Deduct calls recorded per application.
MaxCalls == 5
\* Largest transaction group submitted.
MaxGroup == 2
\* Total paid into the escrow, and the largest single amount.
MaxFunded == 3
MaxAmt == 2
\* Longest global-state list decoded.
MaxEntries == 2
\* Largest round budget passed to wait_for_confirmation.
MaxTimeout == 3
\* Last round of the node at which a block is added on its own or a wait
\* is started.
MaxRound == 2

-----------------------------------------------------------------------------
(* Inputs *)

Accounts == {"deployer", "user0"}

OnCompletes ==
    {"NoOp", "OptIn", "CloseOut", "ClearState",
     "UpdateApplication", "DeleteApplication"}

\* application_args of a call: none, the two methods, the lowercase variant
\* of the test suite.
ArgLists == {<< >>, <<"Add">>, <<"Deduct">>, <<"add">>}

CounterPrograms == "counter"
OtherPrograms == "other"
NoPrograms == "none"

IsCreateOf(txn) == txn.kind = "appl" /\ txn.appId = 0
IsCallOf(txn) == txn.kind = "appl" /\ txn.appId = 1

\* An application call; appId 0 is the creation transaction.
AppCalls ==
    [kind : {"appl"}, appId : {0, 1}, oc : OnCompletes,
     args : ArgLists, sender : Accounts]

\* Any other member of a group (a payment between funded accounts).
Payments == [kind : {"pay"}, appId : {0}, oc : {"NoOp"},
             args : {<< >>}, sender : {"user0"}]

Txns == AppCalls \cup Payments

\* Members of the groups of more than one transaction.
GroupTxns ==
    {t \in Txns :
        \/ t.kind = "pay"
        \/ IsCreateOf(t) /\ t.oc = "NoOp" /\ t.args = << >> /\ t.sender = "deployer"
        \/ /\ IsCallOf(t)
           /\ t.sender = "user0"
           /\ \/ t.args = <<"Add">> /\ t.oc \in {"NoOp", "OptIn", "ClearState"}
              \/ t.args = <<"Deduct">> /\ t.oc = "NoOp"}

RECURSIVE SeqsOf(_, _)
SeqsOf(S, n) ==
    IF n = 0 THEN {<< >>}
    ELSE {Append(q, t) : q \in SeqsOf(S, n - 1), t \in S}

Groups == UNION {[1..n -> GroupTxns] : n \in 2..MaxGroup}


-----------------------------------------------------------------------------
(* The counter's approval program *)

EmptyState == [k \in {} |-> 0]

GlobalGet(gs, k) == IF k \in DOMAIN gs THEN gs[k] ELSE 0

GlobalPut(gs, k, v) ==
    [x \in (DOMAIN gs) \cup {k} |-> IF x = k THEN v ELSE gs[x]]

\* Return(Int(1)) after the writes in gs / Return(Int(0)) or a failing opcode.
Approve(gs) == [ok |-> TRUE, gs |-> gs]
Reject(gs) == [ok |-> FALSE, gs |-> gs]

on_creation(gs) == Approve(GlobalPut(gs, "Count", 0))

add_wrapping(gs) ==
    LET scratchCount == GlobalGet(gs, "Count")
    IN  Approve(GlobalPut(gs, "Count", (scratchCount + 1) % (UintMax + 1)))

add_by_two(gs) ==
    LET scratchCount == GlobalGet(gs, "Count")
    IN  IF scratchCount + 2 > UintMax
        THEN Reject(gs)
        ELSE Approve(GlobalPut(gs, "Count", scratchCount + 2))

add_no_store(gs) ==
    LET scratchCount == GlobalGet(gs, "Count")
    IN  IF scratchCount + 1 > UintMax
        THEN Reject(gs)
        ELSE Approve(gs)

\* "+" fails the program when the sum exceeds the unsigned range.
add(gs) ==
    LET scratchCount == GlobalGet(gs, "Count")
    IN  IF scratchCount + 1 > UintMax
        THEN Reject(gs)
        ELSE Approve(GlobalPut(gs, "Count", scratchCount + 1))

deduct_unguarded(gs) ==
    LET scratchCount == GlobalGet(gs, "Count")
    IN  Approve(GlobalPut(gs, "Count", scratchCount - 1))

deduct_off_by_one(gs) ==
    LET scratchCount == GlobalGet(gs, "Count")
    IN  IF scratchCount > 1
        THEN Approve(GlobalPut(gs, "Count", scratchCount - 1))
        ELSE Approve(gs)

deduct_fails_at_zero(gs) ==
    LET scratchCount == GlobalGet(gs, "Count")
    IN  IF scratchCount > 0
        THEN Approve(GlobalPut(gs, "Count", scratchCount - 1))
        ELSE Reject(gs)

deduct(gs) ==
    LET scratchCount == GlobalGet(gs, "Count")
    IN  IF scratchCount > 0
        THEN Approve(GlobalPut(gs, "Count", scratchCount - 1))
        ELSE Approve(gs)

handle_noop_lowercase(txn, groupSize, gs) ==
    IF Len(txn.args) = 0 THEN Reject(gs)
    ELSE IF groupSize = 1 /\ txn.args[1] \in {"Add", "add"} THEN add(gs)
    ELSE IF groupSize = 1 /\ txn.args[1] = "Deduct" THEN deduct(gs)
    ELSE Reject(gs)

handle_noop_deployer_deducts(txn, groupSize, gs) ==
    IF Len(txn.args) = 0 THEN Reject(gs)
    ELSE IF groupSize = 1 /\ txn.args[1] = "Add" THEN add(gs)
    ELSE IF groupSize = 1 /\ txn.args[1] = "Deduct" /\ txn.sender = "deployer"
         THEN deduct(gs)
    ELSE Reject(gs)

handle_noop_any_group(txn, groupSize, gs) ==
    IF Len(txn.args) = 0 THEN Reject(gs)
    ELSE IF txn.args[1] = "Add" THEN add(gs)
    ELSE IF groupSize = 1 /\ txn.args[1] = "Deduct" THEN deduct(gs)
    ELSE Reject(gs)

\* Cond fails when no branch matches; application_args[0] fails when the
\* call carries no argument.
handle_noop(txn, groupSize, gs) ==
    IF Len(txn.args) = 0 THEN Reject(gs)
    ELSE IF groupSize = 1 /\ txn.args[1] = "Add" THEN add(gs)
    ELSE IF groupSize = 1 /\ txn.args[1] = "Deduct" THEN deduct(gs)
    ELSE Reject(gs)

program_creation_last(txn, groupSize, gs) ==
    IF txn.oc = "OptIn" THEN Reject(gs)
    ELSE IF txn.oc = "CloseOut" THEN Reject(gs)
    ELSE IF txn.oc = "UpdateApplication" THEN Reject(gs)
    ELSE IF txn.oc = "DeleteApplication" THEN Reject(gs)
    ELSE IF txn.appId = 0 THEN on_creation(gs)
    ELSE IF txn.oc = "NoOp" THEN handle_noop(txn, groupSize, gs)
    ELSE Reject(gs)

program_update_allowed(txn, groupSize, gs) ==
    IF txn.appId = 0 THEN on_creation(gs)
    ELSE IF txn.oc = "OptIn" THEN Reject(gs)
    ELSE IF txn.oc = "CloseOut" THEN Reject(gs)
    ELSE IF txn.oc = "UpdateApplication" THEN Approve(gs)
    ELSE IF txn.oc = "DeleteApplication" THEN Reject(gs)
    ELSE IF txn.oc = "NoOp" THEN handle_noop(txn, groupSize, gs)
    ELSE Reject(gs)

program(txn, groupSize, gs) ==
    IF txn.appId = 0 THEN on_creation(gs)
    ELSE IF txn.oc = "OptIn" THEN Reject(gs)
    ELSE IF txn.oc = "CloseOut" THEN Reject(gs)
    ELSE IF txn.oc = "UpdateApplication" THEN Reject(gs)
    ELSE IF txn.oc = "DeleteApplication" THEN Reject(gs)
    ELSE IF txn.oc = "NoOp" THEN handle_noop(txn, groupSize, gs)
    ELSE Reject(gs)

\* clear_state_program: Return(Int(1)), no write.
clear_state_program(gs) == Approve(gs)

-----------------------------------------------------------------------------
(* The ledger: how a transaction and a group are applied *)

Ledger(c, gs, p, o) == [ok |-> TRUE, created |-> c, gs |-> gs, programs |-> p, optedIn |-> o]

Failed(st) == [st EXCEPT !.ok = FALSE]

\* The creation transaction: the approval program runs on the empty state of
\* the new application, then the on-completion action takes effect.
ApplyCreate(st, txn, groupSize) ==
    LET r == program(txn, groupSize, EmptyState)
    IN  IF st.created \/ txn.oc = "ClearState" \/ ~r.ok THEN Failed(st)
        ELSE IF txn.oc = "CloseOut" THEN Failed(st)
        ELSE IF txn.oc = "DeleteApplication" THEN st
        ELSE IF txn.oc = "OptIn"
             THEN Ledger(TRUE, r.gs, CounterPrograms, {txn.sender})
        ELSE Ledger(TRUE, r.gs, CounterPrograms, {})

\* A call to the existing application: ClearState runs the clear program,
\* every other on-completion action runs the approval program and takes
\* effect only if it approves.
ApplyCall(st, txn, groupSize) ==
    IF ~st.created THEN Failed(st)
    ELSE IF txn.oc = "ClearState"
         THEN IF txn.sender \in st.optedIn
              THEN [st EXCEPT !.gs = clear_state_program(st.gs).gs,
                              !.optedIn = @ \ {txn.sender}]
              ELSE Failed(st)
    ELSE LET r == program(txn, groupSize, st.gs)
         IN  IF ~r.ok THEN Failed(st)
             ELSE IF txn.oc = "OptIn"
                  THEN [st EXCEPT !.gs = r.gs, !.optedIn = @ \cup {txn.sender}]
             ELSE IF txn.oc = "CloseOut"
                  THEN IF txn.sender \in st.optedIn
                       THEN [st EXCEPT !.gs = r.gs, !.optedIn = @ \ {txn.sender}]
                       ELSE Failed(st)
             ELSE IF txn.oc = "UpdateApplication"
                  THEN [st EXCEPT !.gs = r.gs, !.programs = OtherPrograms]
             ELSE IF txn.oc = "DeleteApplication"
                  THEN Ledger(FALSE, EmptyState, NoPrograms, {})
             ELSE [st EXCEPT !.gs = r.gs]

ApplyTxn(st, txn, groupSize) ==
    IF txn.kind = "pay" THEN st
    ELSE IF txn.appId = 0 THEN ApplyCreate(st, txn, groupSize)
    ELSE ApplyCall(st, txn, groupSize)

\* The members are applied in order; the first rejection fails the group.
RECURSIVE ApplyFrom(_, _, _)
ApplyFrom(st, g, i) ==
    IF i > Len(g) \/ ~st.ok THEN st
    ELSE ApplyFrom(ApplyTxn(st, g[i], Len(g)), g, i + 1)

\* All succeed or all fail together.
ApplyGroup(st, g) ==
    LET r == ApplyFrom(st, g, 1)
    IN  IF r.ok THEN r ELSE Failed(st)

IsSoloMethod(g) ==
    /\ Len(g) = 1
    /\ IsCallOf(g[1])
    /\ g[1].oc = "NoOp"
    /\ g[1].args \in {<<"Add">>, <<"Deduct">>}

\* The record of approved solo Add/Deduct calls after an accepted group.
HistAfter(h, st, r, g) ==
    IF ~r.created THEN << >>
    ELSE IF ~st.created THEN << >>
    ELSE IF IsSoloMethod(g) THEN Append(h, g[1].args[1])
    ELSE h

-----------------------------------------------------------------------------
(* Counter: state and steps *)

CurrentLedger == Ledger(created, globalState, programs, optedIn)

NoLedger == Ledger(FALSE, EmptyState, NoPrograms, {})

NoSend ==
    [called |-> FALSE, txns |-> << >>, submitted |-> << >>,
     group_id |-> FALSE, api |-> "none", waited |-> FALSE]

InitCounter ==
    /\ created = FALSE
    /\ globalState = EmptyState
    /\ programs = NoPrograms
    /\ optedIn = {}
    /\ hist = << >>
    /\ phase = "idle"
    /\ group = << >>
    /\ accepted = FALSE
    /\ pre = NoLedger
    /\ sendLog = NoSend

NumCreates(g) == Cardinality({i \in 1..Len(g) : IsCreateOf(g[i])})

\* One application is followed: a creation is submitted only while none exists.
Submittable(g) == NumCreates(g) <= (IF created THEN 0 ELSE 1)

send_transactions_first_only(txns) ==
    IF Len(txns) = 0
    THEN [called |-> TRUE, txns |-> txns, submitted |-> << >>,
          group_id |-> FALSE, api |-> "none", waited |-> FALSE]
    ELSE [called |-> TRUE, txns |-> txns, submitted |-> <<txns[1]>>,
          group_id |-> FALSE, api |-> "send_transaction", waited |-> TRUE]

\* What send_transactions does with txns: what it hands to the client,
\* whether it assigned a group id, the client call, whether it waits.
send_transactions(txns) ==
    IF Len(txns) = 0
    THEN [called |-> TRUE, txns |-> txns, submitted |-> << >>,
          group_id |-> FALSE, api |-> "none", waited |-> FALSE]
    ELSE IF Len(txns) = 1
    THEN [called |-> TRUE, txns |-> txns, submitted |-> txns,
          group_id |-> FALSE, api |-> "send_transaction", waited |-> TRUE]
    ELSE [called |-> TRUE, txns |-> txns, submitted |-> txns,
          group_id |-> TRUE, api |-> "send_transactions", waited |-> TRUE]

\* send_transactions(sender, txns) up to the submission.
SendTransactions(txns) ==
    /\ phase = "idle"
    /\ Submittable(txns)
    /\ LET p == send_transactions(txns)
       IN  /\ sendLog' = p
           /\ group' = p.submitted
           /\ phase' = IF p.waited THEN "pending" ELSE "idle"
    /\ UNCHANGED <<created, globalState, programs, optedIn, hist, accepted, pre>>
    /\ UNCHANGED <<escrowVars, waitVars, flowVars, formatVars>>

\* send_transactions with an empty list: returns at once.
SendNothing == sendLog = NoSend /\ SendTransactions(<< >>)

\* send_transactions with one transaction: client.send_transaction.
SubmitSolo(txn) == SendTransactions(<<txn>>)

\* send_transactions with several: assign_group_id, client.send_transactions.
SubmitGroup(g) == SendTransactions(g)

\* The network evaluates the pending group against the ledger.
Evaluate ==
    /\ phase = "pending"
    /\ LET r == ApplyGroup(CurrentLedger, group)
           h == IF r.ok THEN HistAfter(hist, CurrentLedger, r, group) ELSE hist
       IN  /\ Len(h) <= MaxCalls
           /\ phase' = "done"
           /\ accepted' = r.ok
           /\ pre' = CurrentLedger
           /\ created' = r.created
           /\ globalState' = r.gs
           /\ programs' = r.programs
           /\ optedIn' = r.optedIn
           /\ hist' = h
    /\ UNCHANGED <<group, sendLog>>
    /\ UNCHANGED <<escrowVars, waitVars, flowVars, formatVars>>

\* The submitter has seen the outcome (confirmation or failure).
Observe ==
    /\ phase = "done"
    /\ phase' = "idle"
    /\ group' = << >>
    /\ accepted' = FALSE
    /\ pre' = NoLedger
    /\ sendLog' = NoSend
    /\ UNCHANGED <<created, globalState, programs, optedIn, hist>>
    /\ UNCHANGED <<escrowVars, waitVars, flowVars, formatVars>>

NextCounter ==
    \/ SendNothing
    \/ \E txn \in Txns : SubmitSolo(txn)
    \/ \E g \in Groups : SubmitGroup(g)
    \/ Evaluate
    \/ Observe

-----------------------------------------------------------------------------
(* The donation escrow *)

\* receiver_public_key
Benefactor == "UFAGBH5BHBAKDSSSBKP6LAZ7VFIA3ETNK7LVNEH6KXRRNTYE6WYHTEMEGU"
OtherAddr == "other"
ZeroAddr == "zero"
Addrs == {Benefactor, OtherAddr}

\* Authorisation by the escrow's logic signature (the account is not rekeyed).
EscrowLsig == "lsig"

TxnTypes == {"pay", "axfer", "appl"}

\* A transaction sent from the escrow address; close_remainder_to and
\* rekey_to are ZeroAddr when unset.
EscrowTxns ==
    [type : TxnTypes, receiver : Addrs, amt : 0..MaxAmt,
     closeTo : Addrs \cup {ZeroAddr}, rekeyTo : Addrs \cup {ZeroAddr}]

NoTxn ==
    [type |-> "none", receiver |-> ZeroAddr, amt |-> 0,
     closeTo |-> ZeroAddr, rekeyTo |-> ZeroAddr]

donation_escrow_any_group(benefactor, txn, groupSize) ==
    /\ txn.type = "pay"
    /\ txn.receiver = benefactor

donation_escrow(benefactor, txn, groupSize) ==
    /\ txn.type = "pay"
    /\ txn.receiver = benefactor
    /\ groupSize = 1

InitEscrow ==
    /\ escrowBal = 0
    /\ escrowAuth = EscrowLsig
    /\ received = [a \in Addrs |-> 0]
    /\ funded = 0
    /\ escrowPhase = "idle"
    /\ escrowTxn = NoTxn
    /\ escrowGroupSize = 0
    /\ escrowVerdict = FALSE
    /\ escrowApplied = FALSE

\* payment_transaction(sender_mnemonic, amt, escrow_address, algod_client)
Fund(amt) ==
    /\ escrowPhase = "idle"
    /\ funded + amt <= MaxFunded
    /\ funded' = funded + amt
    /\ escrowBal' = escrowBal + amt
    /\ UNCHANGED <<escrowAuth, received, escrowPhase, escrowTxn,
                   escrowGroupSize, escrowVerdict, escrowApplied>>
    /\ UNCHANGED <<counterVars, waitVars, flowVars, formatVars>>

\* lsig_payment_txn up to send_transaction: a transaction from the escrow,
\* signed with the escrow program, is submitted.
SubmitEscrow(txn, groupSize) ==
    /\ escrowPhase = "idle"
    /\ escrowPhase' = "pending"
    /\ escrowTxn' = txn
    /\ escrowGroupSize' = groupSize
    /\ UNCHANGED <<escrowBal, escrowAuth, received, funded,
                   escrowVerdict, escrowApplied>>
    /\ UNCHANGED <<counterVars, waitVars, flowVars, formatVars>>

\* The amounts a payment moves: txn.amt to the receiver and, when
\* close_remainder_to is set, the rest of the balance to that address.
Paid(txn, bal, a) ==
    (IF a = txn.receiver THEN txn.amt ELSE 0)
    + (IF a = txn.closeTo THEN bal - txn.amt ELSE 0)

\* The network evaluates the program and, if it approves a payment the
\* balance covers, moves the funds and applies the rekey.
EvaluateEscrow ==
    /\ escrowPhase = "pending"
    /\ LET v == donation_escrow(Benefactor, escrowTxn, escrowGroupSize)
           ok == /\ v
                 /\ escrowAuth = EscrowLsig
                 /\ escrowTxn.type = "pay" => escrowTxn.amt <= escrowBal
       IN  /\ escrowVerdict' = v
           /\ escrowApplied' = ok
           /\ IF ok /\ escrowTxn.type = "pay"
              THEN /\ received' =
                        [a \in Addrs |-> received[a] + Paid(escrowTxn, escrowBal, a)]
                   /\ escrowBal' = IF escrowTxn.closeTo = ZeroAddr
                                   THEN escrowBal - escrowTxn.amt
                                   ELSE 0
              ELSE UNCHANGED <<received, escrowBal>>
           /\ escrowAuth' = IF ok /\ escrowTxn.rekeyTo # ZeroAddr
                            THEN escrowTxn.rekeyTo
                            ELSE escrowAuth
    /\ escrowPhase' = "done"
    /\ UNCHANGED <<funded, escrowTxn, escrowGroupSize>>
    /\ UNCHANGED <<counterVars, waitVars, flowVars, formatVars>>

\* wait_for_confirmation has returned or raised.
ObserveEscrow ==
    /\ escrowPhase = "done"
    /\ escrowPhase' = "idle"
    /\ escrowTxn' = NoTxn
    /\ escrowGroupSize' = 0
    /\ escrowVerdict' = FALSE
    /\ escrowApplied' = FALSE
    /\ UNCHANGED <<escrowBal, escrowAuth, received, funded>>
    /\ UNCHANGED <<counterVars, waitVars, flowVars, formatVars>>

NextEscrow ==
    \/ \E amt \in 1..MaxAmt : Fund(amt)
    \/ \E txn \in EscrowTxns, n \in 1..MaxGroup : SubmitEscrow(txn, n)
    \/ EvaluateEscrow
    \/ ObserveEscrow

-----------------------------------------------------------------------------
(* wait_for_confirmation *)

\* dict.get(key, default)
Get(d, k, default) == IF k \in DOMAIN d THEN d[k] ELSE default

EmptyRecord == [k \in {} |-> 0]

ConfirmedRound == 7

\* Records pending_transaction_info may return: "confirmed-round" absent, 0
\* or a round; "pool-error" absent, empty or a message.
PendingRecords ==
    {EmptyRecord}
    \cup [confirmed_round : {0, ConfirmedRound}]
    \cup [pool_error : {"", "overspend"}]
    \cup [confirmed_round : {0, ConfirmedRound}, pool_error : {"", "overspend"}]

\* A node call either raises or answers.
Responses ==
    {[raised |-> TRUE, rec |-> EmptyRecord]}
    \cup [raised : {FALSE}, rec : PendingRecords]

Returned(kind, rec) == [kind |-> kind, value |-> rec, exc |-> "", detail |-> ""]
Raised(exc, detail) ==
    [kind |-> "raise", value |-> EmptyRecord, exc |-> exc, detail |-> detail]
Continue == [kind |-> "continue", value |-> EmptyRecord, exc |-> "", detail |-> ""]
NoResult == [kind |-> "none", value |-> EmptyRecord, exc |-> "", detail |-> ""]

after_poll_ignoring_pool_error(resp) ==
    IF resp.raised THEN Returned("returnNone", EmptyRecord)
    ELSE IF Get(resp.rec, "confirmed_round", 0) > 0
         THEN Returned("returnRecord", resp.rec)
    ELSE IF "pool_error" \notin DOMAIN resp.rec
         THEN Raised("KeyError", "pool-error")
    ELSE Continue

\* The body of the loop from the poll to the test of its answer.
after_poll(resp) ==
    IF resp.raised THEN Returned("returnNone", EmptyRecord)
    ELSE IF Get(resp.rec, "confirmed_round", 0) > 0
         THEN Returned("returnRecord", resp.rec)
    ELSE IF "pool_error" \notin DOMAIN resp.rec
         THEN Raised("KeyError", "pool-error")
    ELSE IF resp.rec["pool_error"] # ""
         THEN Raised("pool error", resp.rec["pool_error"])
    ELSE Continue

InitWait ==
    /\ lastRound = 0
    /\ wfcPc = "idle"
    /\ timeout = 0
    /\ start_round = 0
    /\ current_round = 0
    /\ pollLog = << >>
    /\ waits = 0
    /\ wfcResult = NoResult

\* The network adds a block.
NewBlock ==
    /\ lastRound < MaxRound
    /\ lastRound' = lastRound + 1
    /\ UNCHANGED <<wfcPc, timeout, start_round, current_round, pollLog, waits,
                   wfcResult>>
    /\ UNCHANGED <<counterVars, escrowVars, flowVars, formatVars>>

\* wait_for_confirmation(client, transaction_id, timeout) is called.
BeginWait(t) ==
    /\ wfcPc = "idle"
    /\ lastRound <= MaxRound
    /\ wfcPc' = "status"
    /\ timeout' = t
    /\ pollLog' = << >>
    /\ waits' = 0
    /\ wfcResult' = NoResult
    /\ UNCHANGED <<lastRound, start_round, current_round>>

CallWait(t) ==
    /\ BeginWait(t)
    /\ UNCHANGED <<counterVars, escrowVars, flowVars, formatVars>>

\* start_round = client.status()["last-round"] + 1
StatusReturns ==
    /\ wfcPc = "status"
    /\ start_round' = lastRound + 1
    /\ current_round' = lastRound + 1
    /\ wfcPc' = "loop"
    /\ UNCHANGED <<lastRound, timeout, pollLog, waits, wfcResult>>
    /\ UNCHANGED <<counterVars, escrowVars, flowVars, formatVars>>

\* client.status() or client.status_after_block() raises: not caught.
NodeCallRaises ==
    /\ wfcPc \in {"status", "wait"}
    /\ wfcPc' = "done"
    /\ wfcResult' = Raised("node", "")
    /\ UNCHANGED <<lastRound, timeout, start_round, current_round, pollLog, waits>>
    /\ UNCHANGED <<counterVars, escrowVars, flowVars, formatVars>>

LoopTest_inclusive ==
    /\ wfcPc = "loop"
    /\ IF current_round <= start_round + timeout
       THEN wfcPc' = "poll" /\ UNCHANGED wfcResult
       ELSE wfcPc' = "done" /\ wfcResult' = Raised("timeout", "")
    /\ UNCHANGED <<lastRound, timeout, start_round, current_round, pollLog, waits>>
    /\ UNCHANGED <<counterVars, escrowVars, flowVars, formatVars>>

\* while current_round < start_round + timeout, else the final raise.
LoopTest ==
    /\ wfcPc = "loop"
    /\ IF current_round < start_round + timeout
       THEN wfcPc' = "poll" /\ UNCHANGED wfcResult
       ELSE wfcPc' = "done" /\ wfcResult' = Raised("timeout", "")
    /\ UNCHANGED <<lastRound, timeout, start_round, current_round, pollLog, waits>>
    /\ UNCHANGED <<counterVars, escrowVars, flowVars, formatVars>>

\* pending_transaction_info answers resp; the loop body acts on it.
Poll(resp) ==
    /\ wfcPc = "poll"
    /\ pollLog' = Append(pollLog, resp)
    /\ LET r == after_poll(resp)
       IN  IF r.kind = "continue"
           THEN wfcPc' = "wait" /\ UNCHANGED wfcResult
           ELSE wfcPc' = "done" /\ wfcResult' = r
    /\ UNCHANGED <<lastRound, timeout, start_round, current_round, waits>>
    /\ UNCHANGED <<counterVars, escrowVars, flowVars, formatVars>>

\* client.status_after_block(current_round) returns; current_round += 1
WaitBlock ==
    /\ wfcPc = "wait"
    /\ lastRound' = IF lastRound > current_round THEN lastRound
                                                 ELSE current_round + 1
    /\ current_round' = current_round + 1
    /\ waits' = waits + 1
    /\ wfcPc' = "loop"
    /\ UNCHANGED <<timeout, start_round, pollLog, wfcResult>>
    /\ UNCHANGED <<counterVars, escrowVars, flowVars, formatVars>>

\* The caller has the result; the function may be called again.
WaitEnds ==
    /\ wfcPc = "done"
    /\ wfcPc' = "idle"
    /\ UNCHANGED <<lastRound, timeout, start_round, current_round, pollLog,
                   waits, wfcResult>>
    /\ UNCHANGED <<counterVars, escrowVars, flowVars, formatVars>>

NextWait ==
    \/ NewBlock
    \/ \E t \in (-1)..MaxTimeout : CallWait(t)
    \/ StatusReturns
    \/ NodeCallRaises
    \/ LoopTest
    \/ \E resp \in Responses : Poll(resp)
    \/ WaitBlock
    \/ WaitEnds

-----------------------------------------------------------------------------
(* The workflows: submit, wait for the confirmation, report *)

Workflows ==
    {"create_app", "call_app", "payment_transaction", "lsig_payment_txn",
     "send_transactions"}

\* The round budget each workflow passes to wait_for_confirmation.
FlowTimeout(name) == IF name = "lsig_payment_txn" THEN 10 ELSE 5

NoFlow == [name |-> "none", pc |-> "idle", outcome |-> "none", failed |-> FALSE]

InitFlow == flow = NoFlow

\* The workflow is called and builds and signs its transaction.
StartFlow(name) ==
    /\ flow.pc = "idle"
    /\ wfcPc = "idle"
    /\ lastRound <= MaxRound
    /\ flow' = [name |-> name, pc |-> "send", outcome |-> "none", failed |-> FALSE]
    /\ UNCHANGED <<counterVars, escrowVars, waitVars, formatVars>>

\* client.send_transaction(s) returns; wait_for_confirmation is called.
SendReturns ==
    /\ flow.pc = "send"
    /\ BeginWait(FlowTimeout(flow.name))
    /\ flow' = [flow EXCEPT !.pc = "wait"]
    /\ UNCHANGED <<counterVars, escrowVars, formatVars>>

\* client.send_transaction(s) raises: the node rejects the submission.
SendRaises ==
    /\ flow.pc = "send"
    /\ flow' = [flow EXCEPT !.pc = "done", !.outcome = "raised", !.failed = TRUE]
    /\ UNCHANGED <<counterVars, escrowVars, waitVars, formatVars>>

\* wait_for_confirmation raises: nothing catches it.
WaitRaised ==
    /\ flow.pc = "wait"
    /\ wfcPc = "done"
    /\ wfcResult.kind = "raise"
    /\ wfcPc' = "idle"
    /\ flow' = [flow EXCEPT !.pc = "done", !.outcome = "raised", !.failed = TRUE]
    /\ UNCHANGED <<lastRound, timeout, start_round, current_round, pollLog,
                   waits, wfcResult>>
    /\ UNCHANGED <<counterVars, escrowVars, formatVars>>

\* wait_for_confirmation returns: create_app goes on to
\* pending_transaction_info, call_app prints "Application called", the
\* others return what it returned.
WaitReturned ==
    /\ flow.pc = "wait"
    /\ wfcPc = "done"
    /\ wfcResult.kind # "raise"
    /\ wfcPc' = "idle"
    /\ LET f == \E i \in 1..Len(pollLog) : pollLog[i].raised
       IN  flow' = IF flow.name = "create_app"
                   THEN [flow EXCEPT !.pc = "info", !.failed = f]
                   ELSE [flow EXCEPT !.pc = "done", !.outcome = "success",
                                     !.failed = f]
    /\ UNCHANGED <<lastRound, timeout, start_round, current_round, pollLog,
                   waits, wfcResult>>
    /\ UNCHANGED <<counterVars, escrowVars, formatVars>>

\* create_app: pending_transaction_info answers; the application id is
\* printed and returned.
InfoReturns ==
    /\ flow.pc = "info"
    /\ flow' = [flow EXCEPT !.pc = "done", !.outcome = "success"]
    /\ UNCHANGED <<counterVars, escrowVars, waitVars, formatVars>>

\* create_app: pending_transaction_info raises.
InfoRaises ==
    /\ flow.pc = "info"
    /\ flow' = [flow EXCEPT !.pc = "done", !.outcome = "raised", !.failed = TRUE]
    /\ UNCHANGED <<counterVars, escrowVars, waitVars, formatVars>>

\* The caller has the outcome.
FlowEnds ==
    /\ flow.pc = "done"
    /\ flow' = NoFlow
    /\ UNCHANGED <<counterVars, escrowVars, waitVars, formatVars>>

NextFlow ==
    \/ \E name \in Workflows : StartFlow(name)
    \/ SendReturns
    \/ SendRaises
    \/ StatusReturns
    \/ NodeCallRaises
    \/ LoopTest
    \/ \E resp \in Responses : Poll(resp)
    \/ WaitBlock
    \/ WaitRaised
    \/ WaitReturned
    \/ InfoReturns
    \/ InfoRaises
    \/ FlowEnds

-----------------------------------------------------------------------------
(* The state formatters *)

\* base64.b64decode on the strings that occur.
B64Decode(b) ==
    CASE b = "Q291bnQ=" -> "Count"
      [] b = "dm90ZWQ=" -> "voted"
      [] b = "eWVz" -> "yes"
      [] OTHER -> ""

\* The node's TealValue: a discriminant and both payload fields.
TealValues == [type : 0..3, bytes : {"", "eWVz"}, uint : {0, 5}]

StateEntries == [key : {"Q291bnQ=", "dm90ZWQ="}, value : TealValues]

StateLists == UNION {SeqsOf(StateEntries, n) : n \in 0..MaxEntries}

\* Decoded values, tagged with what they are: the raw base64 text, the
\* decoded text or bytes, an unsigned integer.
Base64Text(b) == [kind |-> "base64", s |-> b, n |-> 0]
Text(t) == [kind |-> "text", s |-> t, n |-> 0]
ByteString(t) == [kind |-> "bytes", s |-> t, n |-> 0]
Uint(n) == [kind |-> "uint", s |-> "", n |-> n]

EmptyDict == [k \in {} |-> Uint(0)]

DictPut(d, k, v) == [x \in (DOMAIN d) \cup {k} |-> IF x = k THEN v ELSE d[x]]

Formatted(d) == [kind |-> "ok", exc |-> "", value |-> d]
Failure(exc) == [kind |-> "raise", exc |-> exc, value |-> EmptyDict]
NotRun == [kind |-> "none", exc |-> "", value |-> EmptyDict]

\* One iteration of the loop of format_state.
format_item(d, item) ==
    LET formatted_key == B64Decode(item.key)
        value == item.value
    IN  IF value.type = 1
        THEN IF formatted_key = "voted"
             THEN DictPut(d, formatted_key, Text(B64Decode(value.bytes)))
             ELSE DictPut(d, formatted_key, Base64Text(value.bytes))
        ELSE DictPut(d, formatted_key, Uint(value.uint))

RECURSIVE format_items(_, _)
format_items(st, n) ==
    IF n = 0 THEN EmptyDict
    ELSE format_item(format_items(st, n - 1), st[n])

format_state(st) == Formatted(format_items(st, Len(st)))

\* The loop of get_app_global_state; the raise ends it.
RECURSIVE app_state_items(_, _)
app_state_items(st, n) ==
    IF n = 0 THEN Formatted(EmptyDict)
    ELSE LET before == app_state_items(st, n - 1)
             key == B64Decode(st[n].key)
             value == st[n].value
         IN  IF before.kind = "raise" THEN before
             ELSE IF value.type = 1
                  THEN Formatted(DictPut(before.value, key,
                                         ByteString(B64Decode(value.bytes))))
             ELSE IF value.type = 2
                  THEN Formatted(DictPut(before.value, key, Uint(value.uint)))
             ELSE Failure("Unexpected state type")

get_app_global_state(st) == app_state_items(st, Len(st))

InitFormat ==
    /\ state = << >>
    /\ formatted = NotRun
    /\ app_state = NotRun

\* format_state(state)
FormatState ==
    /\ formatted = NotRun
    /\ formatted' = format_state(state)
    /\ UNCHANGED <<state, app_state>>
    /\ UNCHANGED <<counterVars, escrowVars, waitVars, flowVars>>

\* get_app_global_state on an application whose global state is state
GetAppGlobalState ==
    /\ app_state = NotRun
    /\ app_state' = get_app_global_state(state)
    /\ UNCHANGED <<state, formatted>>
    /\ UNCHANGED <<counterVars, escrowVars, waitVars, flowVars>>

NextFormat == FormatState \/ GetAppGlobalState

-----------------------------------------------------------------------------
(* Specifications *)

Init == InitCounter /\ InitEscrow /\ InitWait /\ InitFlow /\ InitFormat

\* The decoders are pure: every list of the bounded input set is tried.
InitDecoders ==
    /\ InitCounter /\ InitEscrow /\ InitWait /\ InitFlow
    /\ state \in StateLists
    /\ formatted = NotRun
    /\ app_state = NotRun

Next == NextCounter

Spec == Init /\ [][Next]_vars

SpecEscrow == Init /\ [][NextEscrow]_vars

SpecWait == Init /\ [][NextWait]_vars

SpecFlow == Init /\ [][NextFlow]_vars

SpecFormat == InitDecoders /\ [][NextFormat]_vars

\* The function runs on, and every node call it makes returns.
SpecWaitLive ==
    /\ SpecWait
    /\ WF_vars(StatusReturns)
    /\ WF_vars(LoopTest)
    /\ WF_vars(\E resp \in Responses : Poll(resp))
    /\ WF_vars(WaitBlock)

-----------------------------------------------------------------------------
(* Counter: properties *)

Count == GlobalGet(globalState, "Count")
PreCount == GlobalGet(pre.gs, "Count")

Max0(n) == IF n > 0 THEN n ELSE 0

NumOf(h, m) == Cardinality({i \in 1..Len(h) : h[i] = m})

\* max(0, number of Adds - number of Deducts)
NetCount(h) == Max0(NumOf(h, "Add") - NumOf(h, "Deduct"))

\* The value after taking the steps of h in order from 0.
RECURSIVE StepsFromZero(_)
StepsFromZero(h) ==
    IF Len(h) = 0 THEN 0
    ELSE LET v == StepsFromZero(SubSeq(h, 1, Len(h) - 1))
         IN  IF h[Len(h)] = "Add" THEN v + 1 ELSE Max0(v - 1)

\* No Deduct of h was made while the value was 0.
NoDeductAtZero(h) ==
    \A i \in 1..Len(h) :
        h[i] = "Deduct" => StepsFromZero(SubSeq(h, 1, i - 1)) > 0

\* C1 as stated: after any sequence of confirmed solo Add and Deduct calls on
\* a fresh counter, Count = max(0, Adds - Deducts).
C1_CountIsNetCount == created => Count = NetCount(hist)

\* C1 amended: Count is the value reached by taking the confirmed calls in
\* order from 0 (Add: v + 1, Deduct: max(v - 1, 0)); it is never negative,
\* never below max(0, Adds - Deducts), and equal to it when no Deduct was made
\* at Count 0.
C1_CountIsStepsFromZero ==
    created =>
        /\ Count = StepsFromZero(hist)
        /\ Count >= 0
        /\ Count >= NetCount(hist)
        /\ NoDeductAtZero(hist) => Count = NetCount(hist)

C1_Witness ==
    /\ created
    /\ Len(hist) >= 4
    /\ hist[1] = "Deduct"
    /\ Count = 1
    /\ NetCount(hist) = 0

\* C2: in every reachable state of a created counter, whatever was submitted,
\* the stored Count is an integer >= 0.
C2_CountNonNegative ==
    created => /\ "Count" \in DOMAIN globalState
               /\ globalState["Count"] \in Nat

C2_Witness ==
    /\ created
    /\ phase = "done"
    /\ ~accepted
    /\ Len(hist) >= 2
    /\ Count = 0

IsSolo(m) ==
    /\ phase = "done"
    /\ pre.created
    /\ IsSoloMethod(group)
    /\ group[1].args = <<m>>

\* C3: a solo NoOp Deduct on a counter whose Count is 0 is approved and
\* leaves Count at 0.
C3_DeductAtZero ==
    (IsSolo("Deduct") /\ PreCount = 0) => (accepted /\ created /\ Count = 0)

C3_Witness == IsSolo("Deduct") /\ PreCount = 0 /\ accepted /\ Len(hist) >= 3

\* C4: Count is 0 at creation; an approved solo Add takes v to v + 1, an
\* approved solo Deduct takes v to max(v - 1, 0); an approved call takes
\* exactly one such step and nothing else moves Count.
C4_StateMachine ==
    phase = "done" =>
        /\ (~pre.created /\ created) => Count = 0
        /\ (IsSolo("Add") /\ accepted) => Count = PreCount + 1
        /\ (IsSolo("Deduct") /\ accepted) => Count = Max0(PreCount - 1)
        /\ (pre.created /\ created /\ ~(IsSoloMethod(group) /\ accepted))
              => Count = PreCount

C4_Witness ==
    /\ phase = "done"
    /\ hist = <<"Add", "Add", "Add", "Deduct", "Deduct">>
    /\ PreCount = 2
    /\ Count = 1

IsNoOpCall(txn) == IsCallOf(txn) /\ txn.oc = "NoOp"

\* C5: a group of more than one transaction that contains NoOp calls to the
\* counter is rejected as a whole: the program rejects every such member and
\* Count (with the rest of the application) is as before.
C5_GroupRejected ==
    (/\ phase = "done"
     /\ Len(group) > 1
     /\ \E i \in 1..Len(group) : IsNoOpCall(group[i]))
    => /\ ~accepted
       /\ \A i \in 1..Len(group) :
             IsNoOpCall(group[i]) => ~program(group[i], Len(group), pre.gs).ok
       /\ globalState = pre.gs
       /\ created = pre.created

C5_Witness ==
    /\ phase = "done"
    /\ pre.created
    /\ PreCount = 1
    /\ Len(group) = 2
    /\ \A i \in 1..2 : IsNoOpCall(group[i]) /\ group[i].args = <<"Add">>

RejectedActions == {"OptIn", "CloseOut", "UpdateApplication", "DeleteApplication"}

HasRejectedAction(g) ==
    \E i \in 1..Len(g) : IsCallOf(g[i]) /\ g[i].oc \in RejectedActions

\* C6: on an existing counter every OptIn, CloseOut, UpdateApplication or
\* DeleteApplication call is rejected, whoever sends it and whatever its
\* arguments, leaving Count and the programs unchanged; the application is
\* never updated or deleted.
C6_OtherActionsRejected ==
    [][/\ created => (created' /\ programs' = programs)
       /\ (phase' = "done" /\ pre'.created /\ HasRejectedAction(group'))
             => /\ ~accepted'
                /\ globalState' = pre'.gs
                /\ programs' = pre'.programs]_vars

C6_Witness ==
    /\ phase = "done"
    /\ pre.created
    /\ Len(group) = 1
    /\ IsCallOf(group[1])
    /\ group[1].oc = "UpdateApplication"
    /\ group[1].sender = "deployer"
    /\ PreCount = 2

\* C14 as stated: for every stored value v of the unsigned range a solo NoOp
\* Add is approved and leaves Count = v + 1.
C14_AddAlwaysIncrements ==
    IsSolo("Add") => (accepted /\ Count = PreCount + 1)

\* C14 amended: for every stored value v below the largest unsigned value a
\* solo NoOp Add is approved and leaves Count = v + 1; at the largest value
\* the addition fails, the call is rejected and Count is unchanged.
C14_AddIncrementsBelowMax ==
    IsSolo("Add") =>
        /\ PreCount < UintMax => (accepted /\ Count = PreCount + 1)
        /\ PreCount = UintMax => (~accepted /\ Count = PreCount)

C14_Witness == IsSolo("Add") /\ PreCount = UintMax /\ ~accepted

\* C15: a NoOp call to an existing counter whose first argument is neither
\* "Add" nor "Deduct" (e.g. "add") is rejected even alone in its group, and
\* Count is unchanged.
C15_UnknownMethodRejected ==
    (/\ phase = "done"
     /\ pre.created
     /\ Len(group) = 1
     /\ IsNoOpCall(group[1])
     /\ Len(group[1].args) > 0
     /\ group[1].args[1] \notin {"Add", "Deduct"})
    => (~accepted /\ globalState = pre.gs /\ Count = PreCount)

C15_Witness ==
    /\ phase = "done"
    /\ pre.created
    /\ Len(group) = 1
    /\ IsNoOpCall(group[1])
    /\ group[1].args = <<"add">>
    /\ PreCount = 2
    /\ ~accepted

\* The submitted solo call as another account would have sent it.
SentBy(s) == <<[group[1] EXCEPT !.sender = s]>>

\* C16: the counter has no per-sender behaviour: an Add or Deduct has the
\* same accept/reject outcome and leaves the same Count whichever account
\* sends it, so the Count after each step depends on the sequence of
\* operations alone.
C16_SenderIndependent ==
    /\ created => Count = StepsFromZero(hist)
    /\ \A m \in {"Add", "Deduct"} :
         IsSolo(m) =>
            /\ accepted <=> ~(m = "Add" /\ PreCount = UintMax)
            /\ \A s \in Accounts :
                  LET r == ApplyGroup(pre, SentBy(s))
                  IN  r.ok = accepted /\ r.gs = globalState

C16_Witness ==
    /\ IsSolo("Deduct")
    /\ group[1].sender = "user0"
    /\ accepted
    /\ PreCount = 2
    /\ Count = 1

CreatedState == [k \in {"Count"} |-> 0]

\* C17: the creation transaction (application id 0) is approved by the
\* program whatever its arguments, on-completion action and group size and
\* sets Count to 0; the branch never runs for an existing application: no call
\* to it takes Count back to 0 except a Deduct from 1.
C17_CreationOnly ==
    phase = "done" =>
        /\ \A i \in 1..Len(group) :
              IsCreateOf(group[i]) =>
                 program(group[i], Len(group), EmptyState) = Approve(CreatedState)
        /\ (~pre.created /\ created)
              => (accepted /\ globalState = CreatedState /\ hist = << >>)
        /\ (/\ Len(group) = 1
            /\ IsCreateOf(group[1])
            /\ group[1].oc \in {"NoOp", "OptIn", "UpdateApplication"})
              => (accepted /\ created /\ Count = 0)
        /\ (pre.created /\ created /\ PreCount # 0 /\ Count = 0)
              => (IsSolo("Deduct") /\ accepted /\ PreCount = 1)

C17_Witness ==
    /\ phase = "done"
    /\ Len(group) = 1
    /\ IsCreateOf(group[1])
    /\ group[1].oc = "OptIn"
    /\ group[1].args = <<"Deduct">>
    /\ accepted
    /\ created
    /\ Count = 0

\* C18: a call to an existing counter moves Count by at most 1, and only an
\* approved solo NoOp Add or Deduct moves it; a rejected call leaves the
\* global state as it was; the global state holds the key "Count" and no
\* other, an unsigned integer (one uint, no byte slice).
C18_Frame ==
    /\ created => /\ DOMAIN globalState = {"Count"}
                  /\ globalState["Count"] \in 0..UintMax
    /\ (phase = "done" /\ pre.created /\ created) =>
          /\ Count - PreCount \in {-1, 0, 1}
          /\ Count # PreCount => (accepted /\ IsSoloMethod(group))
    /\ (phase = "done" /\ ~accepted) =>
          /\ globalState = pre.gs
          /\ created = pre.created
          /\ programs = pre.programs
          /\ optedIn = pre.optedIn

C18_Witness ==
    /\ phase = "done"
    /\ pre.created
    /\ ~accepted
    /\ Len(group) = 2
    /\ PreCount = 2
    /\ Count = 2

\* C19: send_transactions given no transaction submits nothing and returns
\* without waiting; given one it submits it ungrouped (a counter call then
\* runs with group size 1) and waits; given more it assigns one group id to
\* all and submits them as one atomic group: all are applied or none is.
C19_SendTransactions ==
    sendLog.called =>
        /\ Len(sendLog.txns) = 0 =>
              /\ sendLog.submitted = << >>
              /\ sendLog.api = "none"
              /\ ~sendLog.waited
              /\ phase = "idle"
              /\ group = << >>
        /\ Len(sendLog.txns) = 1 =>
              /\ group = sendLog.txns
              /\ ~sendLog.group_id
              /\ sendLog.api = "send_transaction"
              /\ sendLog.waited
              /\ phase \in {"pending", "done"}
              /\ (phase = "done" /\ pre.created /\ IsNoOpCall(group[1]))
                    => accepted = program(group[1], 1, pre.gs).ok
        /\ Len(sendLog.txns) > 1 =>
              /\ group = sendLog.txns
              /\ sendLog.group_id
              /\ sendLog.api = "send_transactions"
              /\ sendLog.waited
              /\ phase \in {"pending", "done"}
              /\ phase = "done" =>
                    LET r == ApplyFrom(pre, sendLog.txns, 1)
                    IN  IF accepted
                        THEN r.ok /\ CurrentLedger = r
                        ELSE ~r.ok /\ CurrentLedger = pre

C19_Witness ==
    /\ phase = "done"
    /\ Len(sendLog.txns) = 2
    /\ IsCreateOf(sendLog.txns[1])
    /\ accepted
    /\ created
    /\ Count = 0

-----------------------------------------------------------------------------
(* Donation escrow: properties *)

\* C7: the escrow program approves a transaction if and only if it is a
\* payment, its receiver is the embedded benefactor and the group size is 1;
\* any other receiver is rejected, and so is a group of more than one
\* transaction even with the benefactor as receiver.
C7_EscrowApprovesIff ==
    escrowPhase = "done" =>
        /\ escrowVerdict <=> (/\ escrowTxn.type = "pay"
                              /\ escrowTxn.receiver = Benefactor
                              /\ escrowGroupSize = 1)
        /\ escrowTxn.receiver # Benefactor => (~escrowVerdict /\ ~escrowApplied)
        /\ escrowGroupSize > 1 => (~escrowVerdict /\ ~escrowApplied)

C7_Witness ==
    /\ escrowPhase = "done"
    /\ escrowTxn.type = "pay"
    /\ escrowTxn.receiver = Benefactor
    /\ escrowTxn.amt <= escrowBal
    /\ escrowGroupSize = 2
    /\ ~escrowVerdict

\* C8: whatever the escrow program has authorised, every unit that left the
\* escrow (payment amount, close-out remainder, control by rekeying) went to
\* the benefactor and to no other address.
C8_OnlyBenefactorReceives ==
    /\ \A a \in Addrs \ {Benefactor} : received[a] = 0
    /\ escrowAuth \in {EscrowLsig, Benefactor}

-----------------------------------------------------------------------------
(* wait_for_confirmation: properties *)

IsConfirmed(rec) == Get(rec, "confirmed_round", 0) > 0

SawConfirmation ==
    \E i \in 1..Len(pollLog) : ~pollLog[i].raised /\ IsConfirmed(pollLog[i].rec)

\* C9: a call none of whose polls saw confirmed-round > 0 ends by raising
\* (the timeout failure when no pool error was reported) and never returns
\* normally; every normal return yields a record with confirmed-round > 0.
C9_ReturnsOnlyConfirmed ==
    wfcPc = "done" =>
        /\ ~SawConfirmation => wfcResult.kind = "raise"
        /\ wfcResult.kind # "raise"
             => (wfcResult.kind = "returnRecord" /\ IsConfirmed(wfcResult.value))

IsPoolError(resp) ==
    /\ ~resp.raised
    /\ ~IsConfirmed(resp.rec)
    /\ Get(resp.rec, "pool_error", "") # ""

\* C10: a poll that returns an unconfirmed record with a non-empty pool-error
\* makes wait_for_confirmation raise the pool-error failure on that poll: no
\* further block is waited for and no further poll is made.
C10_PoolErrorRaisesAtOnce ==
    \A i \in 1..Len(pollLog) :
        IsPoolError(pollLog[i]) =>
            /\ i = Len(pollLog)
            /\ waits = i - 1
            /\ wfcPc \in {"done", "idle"}
            /\ wfcResult.kind = "raise"
            /\ wfcResult.exc = "pool error"
            /\ wfcResult.detail = pollLog[i].rec["pool_error"]

C10_Witness ==
    /\ wfcPc = "done"
    /\ Len(pollLog) = 3
    /\ IsPoolError(pollLog[3])
    /\ "confirmed_round" \in DOMAIN pollLog[3].rec

Budget == Max0(timeout)

C11_Bounded ==
    wfcPc \notin {"idle", "status"} =>
        /\ Len(pollLog) <= Budget
        /\ waits <= Budget
        /\ current_round = start_round + waits
        /\ start_round >= 1
        /\ start_round <= lastRound + 1
        /\ Len(pollLog) \in {waits, waits + 1}
        /\ wfcPc = "poll" => Len(pollLog) = waits
        /\ wfcPc = "wait" => Len(pollLog) = waits + 1
        /\ (wfcPc = "done" /\ timeout <= 0)
             => (pollLog = << >> /\ waits = 0 /\ wfcResult.exc = "timeout")

\* C11: wait_for_confirmation is a bounded retry: with budget T it polls at
\* most T times and waits for at most T blocks, the k-th poll being made at
\* round start_round + k - 1 with start_round = last-round + 1; when every
\* node call returns it terminates, and with T <= 0 it raises the timeout
\* failure without polling.
C11_BoundedRetry ==
    /\ [](wfcResult.exc # "node" => C11_Bounded)
    /\ [][wfcPc = "status" /\ wfcPc' = "loop" => start_round' = lastRound + 1]_vars
    /\ (wfcPc = "status" ~> wfcPc = "done")

C11_Witness ==
    /\ wfcPc = "done"
    /\ timeout = 3
    /\ Len(pollLog) = 3
    /\ waits = 3
    /\ wfcResult.exc = "timeout"

-----------------------------------------------------------------------------
(* Workflows: properties *)

\* C12: in every workflow a failed step (submission rejected, node call
\* raising during the poll, pool error, timeout) ends the workflow with a
\* raised failure: no later step runs and success is never reported.
C12_FailureStopsWorkflow ==
    flow.failed => (flow.pc = "done" /\ flow.outcome = "raised")

-----------------------------------------------------------------------------
(* State formatters: properties *)

HasUnknownType(st) == \E i \in 1..Len(st) : st[i].value.type \notin {1, 2}

\* The last entry of st whose key decodes to k.
LastEntry(st, k) ==
    LET i == CHOOSE j \in 1..Len(st) :
                 /\ B64Decode(st[j].key) = k
                 /\ \A m \in (j + 1)..Len(st) : B64Decode(st[m].key) # k
    IN  st[i]

\* A decoder's result on st satisfies the contract: a failure when an entry
\* has a discriminant other than 1 and 2, else a byte string for 1 and an
\* unsigned integer for 2.
DecodesByType(st, res) ==
    IF HasUnknownType(st)
    THEN res.kind = "raise" /\ res.exc = "Unexpected state type"
    ELSE /\ res.kind = "ok"
         /\ \A k \in DOMAIN res.value :
               LET e == LastEntry(st, k)
               IN  IF e.value.type = 1
                   THEN res.value[k].kind \in {"bytes", "text"}
                        /\ res.value[k].s = B64Decode(e.value.bytes)
                   ELSE res.value[k].kind = "uint"
                        /\ res.value[k].n = e.value.uint

\* C13: both decoders (format_state and get_app_global_state) decode
\* discriminant 1 as a byte string and 2 as an unsigned integer, and fail with
\* an unexpected-type failure on any other discriminant.
C13_DecodersCheckType ==
    /\ formatted # NotRun => DecodesByType(state, formatted)
    /\ app_state # NotRun => DecodesByType(state, app_state)

====
